---------------------------- MODULE Spec2Model ----------------------------
(***************************************************************************)
(* State-machine model of action-eslint (src/src/main.ts): run() resolves  *)
(* the changed files, acquires a check run, calls lint() and reports.      *)
(* JavaScript strings that the code inspects (split, extname, includes,    *)
(* toLowerCase, substring) are sequences of one-character strings; an      *)
(* optional value is <<>> when absent and <<v>> when present.              *)
(***************************************************************************)
EXTENDS Integers, Sequences, FiniteSets, TLC

(* ------------------------------ bounds --------------------------------- *)
MaxFiles == 2      \* longest changed-file list the host returns
MaxRuns == 2       \* longest list of in-progress check runs the host returns
MaxSelect == 4     \* longest changed-file list the file selection alone is run on
MaxMsgs == 2       \* most messages the engine reports for one file
AnnotationCap == 3 \* stands for the host's cap N on annotations per update call

(* --------------------------- string helpers ---------------------------- *)
RECURSIVE IndexOfFrom(_, _, _)
\* String.prototype.indexOf for a one-character needle, 0 when absent
IndexOfFrom(s, c, i) ==
    IF i > Len(s) THEN 0
    ELSE IF s[i] = c THEN i
    ELSE IndexOfFrom(s, c, i + 1)

RECURSIVE Split(_, _)
\* String.prototype.split(sep) for a one-character separator:
\* "" gives [""], "a,b" gives ["a","b"], "a," gives ["a",""]
Split(s, sep) ==
    LET i == IndexOfFrom(s, sep, 1)
    IN  IF i = 0 THEN <<s>>
        ELSE <<SubSeq(s, 1, i - 1)>> \o Split(SubSeq(s, i + 1, Len(s)), sep)

\* String.prototype.includes: sub occurs contiguously in s
Includes(s, sub) ==
    \E i \in 1..(Len(s) - Len(sub) + 1) : SubSeq(s, i, i + Len(sub) - 1) = sub

RECURSIVE LastIndexOf(_, _, _)
\* String.prototype.lastIndexOf for a one-character needle, 0 when absent
LastIndexOf(s, c, i) ==
    IF i < 1 THEN 0
    ELSE IF s[i] = c THEN i
    ELSE LastIndexOf(s, c, i - 1)

\* path.basename, as path.extname uses it: the part after the last '/'
Basename(p) == SubSeq(p, LastIndexOf(p, "/", Len(p)) + 1, Len(p))

\* path.extname: from the last '.' of the basename to its end; empty when
\* there is no '.', when the only '.' is the first character, or for ".."
extname(p) ==
    LET b == Basename(p)
        d == LastIndexOf(b, ".", Len(b))
    IN  IF d <= 1 \/ b = <<".", ".">> THEN <<>> ELSE SubSeq(b, d, Len(b))

\* String.prototype.toLowerCase on the letters the model uses
LowerChar(c) ==
    CASE c = "E" -> "e"
      [] c = "S" -> "s"
      [] c = "L" -> "l"
      [] OTHER -> c

toLowerCase(s) == [i \in 1..Len(s) |-> LowerChar(s[i])]

\* JavaScript truthiness of a string: non-empty
Truthy(s) == s # <<>>

\* all sequences over S of length at most n
SeqsUpTo(S, n) == UNION {[1..k -> S] : k \in 0..n}

(* ------------------------- program constants --------------------------- *)
ACTION_NAME == "ESLint"

EXTENSIONS ==
    { <<".", "t", "s">>, <<".", "j", "s">>,
      <<".", "t", "s", "x">>, <<".", "j", "s", "x">> }

\* process.env.GITHUB_SHA, the raw trigger commit
GITHUB_SHA == "sha-trigger"

\* process.env.GITHUB_WORKSPACE, the checkout root
GITHUB_WORKSPACE == <<"/", "w">>

\* let id: number | undefined -- undefined and 0 are both falsy in if (!id)
NoId == 0

(* ------------------------- inputs and host data ------------------------ *)
\* getInput('job-name'): unset, or a name in two spellings
JobNames == { <<>>, <<"e", "s", "l">>, <<"E", "s", "L">> }

\* getInput('lint-all'): unset or set
LintAllInputs == { <<>>, <<"1">> }

\* getInput('custom-glob'): unset, one entry, two entries
CustomGlobs == { <<>>, <<"l", "i", "b">>, <<"a", ",", "b">> }

\* paths the host may report as changed
PathATs == <<"a", ".", "t", "s">>
PathDecl == <<"b", ".", "d", ".", "t", "s">>
PathPy == <<"c", ".", "p", "y">>
PathSrcTsx == <<"s", "/", "d", ".", "t", "s", "x">>
ChangedPaths == { PathATs, PathDecl, PathPy, PathSrcTsx }

\* nodes of pullRequest.files: { path }
PRFileNodes == { [path |-> p] : p \in ChangedPaths }

\* entries of a commit's files: { filename, status }
CommitFiles ==
    { [filename |-> PathATs, status |-> "modified"],
      [filename |-> PathSrcTsx, status |-> "removed"],
      [filename |-> PathSrcTsx, status |-> "added"],
      [filename |-> PathPy, status |-> "modified"] }

\* the pull request's latest commit id; a pull_request event's GITHUB_SHA is
\* the merge commit, never the head commit
PrHeadOid == "oid-pr-head"

\* answers of the pull-request GraphQL query: files.nodes, and commits.nodes
\* (last: 1), which is empty in a malformed answer
PRAnswers ==
    { [files |-> f, commits |-> c] :
        f \in SeqsUpTo(PRFileNodes, MaxFiles),
        c \in { <<>>, <<[commit |-> [oid |-> PrHeadOid]]>> } }

\* answers of repos.getCommit: data.files
CommitAnswers == { [files |-> f] : f \in SeqsUpTo(CommitFiles, MaxFiles) }

\* further changed paths for the file selection run alone
PathDTsx == <<"d", ".", "t", "s", "x">>
PathDeclTsx == <<"e", ".", "d", ".", "t", "s", "x">>
PathSrcATs == <<"s", "r", "c", "/", "a", ".", "t", "s">>
PathSrcBTs == <<"s", "r", "c", "/", "b", ".", "t", "s">>
PathReadme == <<"R", "E", "A", "D", "M", "E", ".", "m", "d">>
PathUTs == <<"u", ".", "t", "s">>
PathCJs == <<"c", ".", "j", "s">>

\* pull-request answers for the file selection run alone: well-formed, over
\* paths with a declaration suffix at the end and inside
SelectPRAnswers ==
    { [files |-> f, commits |-> <<[commit |-> [oid |-> PrHeadOid]]>>] :
        f \in SeqsUpTo({ [path |-> p] :
                            p \in { PathATs, PathDecl, PathPy, PathDTsx, PathDeclTsx } },
                       MaxSelect) }

\* commit answers for the file selection run alone: one entry per path, over
\* the statuses the host reports
SelectCommitAnswers ==
    { [files |-> f] :
        f \in SeqsUpTo({ [filename |-> PathSrcATs, status |-> "modified"],
                         [filename |-> PathSrcBTs, status |-> "removed"],
                         [filename |-> PathReadme, status |-> "modified"],
                         [filename |-> PathUTs, status |-> "unchanged"],
                         [filename |-> PathCJs, status |-> "changed"],
                         [filename |-> PathDTsx, status |-> "renamed"] },
                       MaxSelect) }

\* names of check runs the host may list as in progress
RunNames == { <<"E", "S", "L">>, <<"x">> }

\* check_runs of a listForRef answer: ids are positive and distinct
CheckRunLists ==
    { [i \in 1..Len(ns) |-> [id |-> i, name |-> ns[i]]] :
        ns \in SeqsUpTo(RunNames, MaxRuns) }

\* the id the host gives a created check run: none of the listed ones
CreatedId == MaxRuns + 1

(* ------------------------------ lint() --------------------------------- *)
\* the default root target ['src']
DefaultTarget == << <<"s", "r", "c">> >>

\* FilesToLint with lint-all tested before custom-glob
FilesToLint_LintAllFirst(files, lintAll, customGlob) ==
    IF Truthy(lintAll) THEN DefaultTarget
    ELSE IF Truthy(customGlob) THEN Split(customGlob, ",")
    ELSE IF files # <<>> THEN files[1]
    ELSE DefaultTarget

\* FilesToLint preferring a resolved changed-file list to lint-all
FilesToLint_FilesFirst(files, lintAll, customGlob) ==
    IF Truthy(customGlob) /\ Truthy(lintAll) THEN Split(customGlob, ",")
    ELSE IF files # <<>> THEN files[1]
    ELSE DefaultTarget

\* FilesToLint without the final fallback to ['src']
FilesToLint_NoFallback(files, lintAll, customGlob) ==
    IF Truthy(customGlob) /\ Truthy(lintAll) THEN Split(customGlob, ",")
    ELSE IF Truthy(lintAll) THEN DefaultTarget
    ELSE IF files # <<>> THEN files[1]
    ELSE <<>>

\* FilesToLint treating an empty resolved list like an unresolved one
FilesToLint_EmptyFallsBack(files, lintAll, customGlob) ==
    IF Truthy(customGlob) /\ Truthy(lintAll) THEN Split(customGlob, ",")
    ELSE IF Truthy(lintAll) THEN DefaultTarget
    ELSE IF files # <<>> /\ files[1] # <<>> THEN files[1]
    ELSE DefaultTarget

\* src/src/main.ts 17-26: the targets handed to cli.executeOnFiles;
\* files is <<>> when undefined and <<list>> when resolved
FilesToLint(files, lintAll, customGlob) ==
    IF Truthy(customGlob) /\ Truthy(lintAll) THEN Split(customGlob, ",")
    ELSE IF Truthy(lintAll) THEN DefaultTarget
    ELSE IF files # <<>> THEN files[1]
    ELSE DefaultTarget

\* src/dist/main.js 15 and 141: lint(lintAll ? null : lintFiles) hands
\* files || ['src'] to cli.executeOnFiles; custom-glob is not read
DistFilesToLint(files, lintAll) ==
    LET arg == IF Truthy(lintAll) THEN <<>> ELSE files
    IN  IF arg # <<>> THEN arg[1] ELSE DefaultTarget

\* diagnostics the engine may report (eslint's LintMessage)
MsgWarn ==
    [line |-> 3, endLine |-> <<>>, column |-> 1, endColumn |-> <<>>,
     severity |-> <<1>>, ruleId |-> <<"semi">>, message |-> "Missing semicolon."]
MsgError ==
    [line |-> 5, endLine |-> <<6>>, column |-> 2, endColumn |-> <<9>>,
     severity |-> <<2>>, ruleId |-> <<"no-undef">>, message |-> "'x' is not defined."]
MsgFatal ==
    [line |-> 1, endLine |-> <<>>, column |-> 1, endColumn |-> <<>>,
     severity |-> <<2>>, ruleId |-> <<>>, message |-> "Parsing error"]

MsgOff ==
    [line |-> 7, endLine |-> <<8>>, column |-> 4, endColumn |-> <<>>,
     severity |-> <<0>>, ruleId |-> <<"quotes">>, message |-> "Strings must use singlequote."]
MsgNoSeverity ==
    [line |-> 9, endLine |-> <<>>, column |-> 6, endColumn |-> <<7>>,
     severity |-> <<>>, ruleId |-> <<>>, message |-> "Unknown problem"]

\* every kind of message lint() may be handed
LintMessages == { MsgWarn, MsgError, MsgFatal, MsgOff, MsgNoSeverity }

AbsA == GITHUB_WORKSPACE \o <<"/">> \o PathATs
AbsD == GITHUB_WORKSPACE \o <<"/">> \o PathSrcTsx

\* results of sample engine runs: clean, warnings only, errors and a warning
SampleResults ==
    { <<>>,
      <<[filePath |-> AbsA, messages |-> <<MsgWarn, MsgWarn>>]>>,
      <<[filePath |-> AbsA, messages |-> <<MsgError, MsgWarn, MsgError>>],
        [filePath |-> AbsD, messages |-> <<MsgFatal>>]>>,
      <<[filePath |-> AbsD, messages |-> <<MsgFatal>>]>> }

\* the files of a report, each once, in the orders the engine may list them
ReportedFiles == { <<>>, <<AbsA>>, <<AbsD>>, <<AbsA, AbsD>>, <<AbsD, AbsA>> }

\* the message lists the engine may report for one file
MessageLists == SeqsUpTo(LintMessages, MaxMsgs)

\* the results list that reports messages ms[i] for file fs[i]
ResultsOf(fs, ms) == [i \in 1..Len(fs) |-> [filePath |-> fs[i], messages |-> ms[i]]]

RECURSIVE CountSeverity(_, _)
\* the engine's count of messages of one severity over all results
CountSeverity(results, sev) ==
    IF results = <<>> THEN 0
    ELSE Cardinality({ i \in 1..Len(results[1].messages) :
                         results[1].messages[i].severity = <<sev>> })
         + CountSeverity(Tail(results), sev)

\* the report of cli.executeOnFiles: results with the engine's own counts
Report(results) ==
    [results |-> results,
     errorCount |-> CountSeverity(results, 2),
     warningCount |-> CountSeverity(results, 1)]

\* OrElse dropping the given value
OrElse_IgnoreGiven(a, b) == b

\* a || b on optional numbers: b when a is undefined or 0
OrElse(a, b) == IF a = <<>> \/ a = <<0>> THEN b ELSE a[1]

\* levels[severity] of ['notice', 'warning', 'failure']; undefined otherwise
Level(severity) ==
    IF severity = <<0>> THEN "notice"
    ELSE IF severity = <<1>> THEN "warning"
    ELSE IF severity = <<2>> THEN "failure"
    ELSE "undefined"

\* src/src/main.ts 40-49: the annotation pushed for one message
Annotation(path, msg) ==
    [path |-> path,
     start_line |-> msg.line,
     end_line |-> OrElse(msg.endLine, msg.line),
     start_column |-> msg.column,
     end_column |-> OrElse(msg.endColumn, msg.column),
     annotation_level |-> Level(msg.severity),
     title |-> IF msg.ruleId # <<>> THEN msg.ruleId[1] ELSE ACTION_NAME,
     message |-> IF msg.ruleId # <<>>
                 THEN msg.message \o "\nhttps://eslint.org/docs/rules/" \o msg.ruleId[1]
                 ELSE msg.message]

\* src/src/main.ts 35: filePath.substring(GITHUB_WORKSPACE.length + 1)
RelativePath(filePath) == SubSeq(filePath, Len(GITHUB_WORKSPACE) + 2, Len(filePath))

RECURSIVE Annotations_FirstPerFile(_)
\* Annotations keeping one annotation for each file
Annotations_FirstPerFile(results) ==
    IF results = <<>> THEN <<>>
    ELSE (IF results[1].messages = <<>> THEN <<>>
          ELSE <<Annotation(SubSeq(results[1].filePath, Len(GITHUB_WORKSPACE) + 2,
                                   Len(results[1].filePath)),
                            results[1].messages[1])>>)
         \o Annotations_FirstPerFile(Tail(results))

RECURSIVE Annotations(_)
\* src/src/main.ts 33-53: one annotation per message, files then messages
Annotations(results) ==
    IF results = <<>> THEN <<>>
    ELSE [i \in 1..Len(results[1].messages) |->
             Annotation(RelativePath(results[1].filePath), results[1].messages[i])]
         \o Annotations(Tail(results))

RECURSIVE Text(_)
\* a path as text
Text(chars) == IF chars = <<>> THEN "" ELSE chars[1] \o Text(Tail(chars))

\* consoleLevels[severity] of [, 'warning', 'error'], as the template prints it
ConsoleLevel(severity) ==
    IF severity = <<1>> THEN "warning"
    ELSE IF severity = <<2>> THEN "error"
    ELSE "undefined"

\* src/src/main.ts 50: the path line pushed for one message
PathLine(path) == Text(path) \o "\n"

\* src/src/main.ts 51: the diagnostic line pushed for one message
DiagnosticLine(msg) ==
    "##[" \o ConsoleLevel(msg.severity) \o "]  "
    \o ToString(msg.line) \o ":" \o ToString(msg.column) \o "  "
    \o ConsoleLevel(msg.severity) \o "  " \o msg.message \o "  "
    \o (IF msg.ruleId # <<>> THEN msg.ruleId[1] ELSE "null") \o "\n\n"

RECURSIVE ConsoleOfFile(_, _)
\* src/src/main.ts 36-52: the pieces pushed for the messages of one file
ConsoleOfFile(path, messages) ==
    IF messages = <<>> THEN <<>>
    ELSE << PathLine(path), DiagnosticLine(messages[1]) >>
         \o ConsoleOfFile(path, Tail(messages))

RECURSIVE ConsoleOutput(_)
\* src/src/main.ts 31-54: the pieces of the logged text, files then messages
ConsoleOutput(results) ==
    IF results = <<>> THEN <<>>
    ELSE ConsoleOfFile(RelativePath(results[1].filePath), results[1].messages)
         \o ConsoleOutput(Tail(results))

\* src/src/main.ts 57
Conclusion(errorCount) == IF errorCount > 0 THEN "failure" ELSE "success"

\* src/src/main.ts 60
Summary(errorCount, warningCount) ==
    ToString(errorCount) \o " error(s), " \o ToString(warningCount) \o " warning(s) found"

\* LintResult failing on warnings as well
LintResult_WarningsFail(report) ==
    [conclusion |-> Conclusion(report.errorCount + report.warningCount),
     output |-> [title |-> ACTION_NAME,
                 summary |-> Summary(report.errorCount, report.warningCount),
                 annotations |-> Annotations(report.results)]]

\* src/src/main.ts 56-63: what lint() returns for a report
LintResult(report) ==
    [conclusion |-> Conclusion(report.errorCount),
     output |-> [title |-> ACTION_NAME,
                 summary |-> Summary(report.errorCount, report.warningCount),
                 annotations |-> Annotations(report.results)]]

\* src/src/main.ts 12: message of the exception of a failed import of eslint
ImportError == "Cannot find module 'eslint'"

\* src/src/main.ts 27: messages of the exceptions cli.executeOnFiles may raise
EngineErrors == { "No files matching the pattern were found.", "Failed to load config." }

(* --------------------------- file selection ---------------------------- *)
\* src/src/main.ts 103: the filter of pullRequest.files.nodes
KeepPRFile(file) ==
    extname(file.path) \in EXTENSIONS /\ ~Includes(file.path, <<".", "d", ".", "t", "s">>)

\* SelectPRFiles collecting the kept paths last to first
SelectPRFiles_Reversed(nodes) ==
    LET kept == SelectSeq(nodes, KeepPRFile)
    IN  [i \in 1..Len(kept) |-> kept[Len(kept) + 1 - i].path]

\* src/src/main.ts 103: filter(...).map(f => f.path)
SelectPRFiles(nodes) ==
    LET kept == SelectSeq(nodes, KeepPRFile)
    IN  [i \in 1..Len(kept) |-> kept[i].path]

\* src/src/main.ts 115: the filter of a commit's files
KeepCommitFile(file) ==
    /\ extname(file.filename) \in EXTENSIONS
    /\ ~Includes(file.filename, <<".", "d", ".", "t", "s">>)
    /\ file.status # "removed"
    /\ file.status # "changed"

\* src/src/main.ts 115: filter(...).map(f => f.filename)
SelectCommitFiles(files) ==
    LET kept == SelectSeq(files, KeepCommitFile)
    IN  [i \in 1..Len(kept) |-> kept[i].filename]

\* src/src/main.ts 101: commits.nodes[0].commit.oid raises a TypeError when
\* the answer holds no commit node
HasCommitNode(answer) == answer.commits # <<>>

\* PullRequestSha taking the raw trigger commit instead
PullRequestSha_Trigger(answer) == GITHUB_SHA

\* src/src/main.ts 101: currentSha = commits.nodes[0].commit.oid
PullRequestSha(answer) == answer.commits[1].commit.oid

(* --------------------------- check-run lookup -------------------------- *)
RECURSIVE Find_CaseSensitive(_, _)
\* Find comparing the names as they are spelled
Find_CaseSensitive(runs, name) ==
    IF runs = <<>> THEN <<>>
    ELSE IF runs[1].name = name THEN <<runs[1]>>
    ELSE Find_CaseSensitive(Tail(runs), name)

RECURSIVE Find(_, _)
\* src/src/main.ts 130: check_runs.find(name.toLowerCase() === jobName.toLowerCase()),
\* the first match as <<run>>, or <<>> when there is none
Find(runs, name) ==
    IF runs = <<>> THEN <<>>
    ELSE IF toLowerCase(runs[1].name) = toLowerCase(name) THEN <<runs[1]>>
    ELSE Find(Tail(runs), name)

\* src/src/main.ts 131: if (check) id = check.id
ReusedId(runs, name) ==
    IF Find(runs, name) # <<>> THEN Find(runs, name)[1].id ELSE NoId

(* ------------------------------- state --------------------------------- *)
VARIABLES
    pc,          \* position in run()
    trigger,     \* "pr" when context.issue.number is set, else "push"
    jobName,     \* getInput('job-name')
    lintAll,     \* getInput('lint-all')
    customGlob,  \* getInput('custom-glob')
    info,        \* <<>> while undefined, else <<answer of the changed-file query>>
    lintFiles,   \* <<>> while undefined, else <<selected paths>>
    currentSha,  \* the commit the check run is anchored to
    checks,      \* <<>>, or <<check_runs of the listForRef answer>>
    id,          \* the check-run id held, NoId while undefined
    report,      \* <<>>, or <<the report cli.executeOnFiles returned>>
    lintRet,     \* <<>>, or <<what lint() returned>>
    error,       \* <<>>, or <<message of the exception lint() raised>>
    calls,       \* the remote calls issued so far, in order
    lintCalls,   \* number of invocations of lint()
    engine,      \* the target lists handed to cli.executeOnFiles, in order
    warnings,    \* number of '##[warning]' lines logged
    failed,      \* the messages handed to setFailed, in order
    hostRun,     \* host-side status of the check run this invocation holds
    consoleOutput, \* the pieces of the text lint() logs, in order
    distEngine   \* the target lists src/dist/main.js hands to the engine on this run

vars ==
    << pc, trigger, jobName, lintAll, customGlob, info, lintFiles, currentSha,
       checks, id, report, lintRet, error, calls, lintCalls, engine, warnings,
       failed, hostRun, consoleOutput, distEngine >>

inputs == << trigger, jobName, lintAll, customGlob >>

\* one remote call, as the host sees it; checks.create names the run after
\* the tool and starts it in progress (src/src/main.ts 140, 142), and
\* checks.listForRef asks for the runs in progress (127)
Call(api, ref, run, conclusion, output) ==
    [api |-> api, ref |-> ref, check_run_id |-> run,
     name |-> IF api = "checks.create" THEN ACTION_NAME ELSE "none",
     status |-> IF api \in { "checks.create", "checks.listForRef" }
                THEN "in_progress" ELSE "none",
     conclusion |-> conclusion, output |-> output]

NoOutput == <<>>

Init ==
    /\ pc = "query"
    /\ trigger \in { "pr", "push" }
    /\ jobName \in JobNames
    /\ lintAll \in LintAllInputs
    /\ customGlob \in CustomGlobs
    /\ info = <<>>
    /\ lintFiles = <<>>
    /\ currentSha = "unset"
    /\ checks = <<>>
    /\ id = NoId
    /\ report = <<>>
    /\ lintRet = <<>>
    /\ error = <<>>
    /\ calls = <<>>
    /\ lintCalls = 0
    /\ engine = <<>>
    /\ warnings = 0
    /\ failed = <<>>
    /\ hostRun = "none"
    /\ consoleOutput = <<>>
    /\ distEngine = <<>>

(* ------------------------------ run() ---------------------------------- *)
\* src/src/main.ts 73-99: the pull-request query, its failure swallowed
QueryPullRequest ==
    /\ pc = "query"
    /\ trigger = "pr"
    /\ calls' = Append(calls, Call("graphql", "none", NoId, "none", NoOutput))
    /\ \/ \E answer \in PRAnswers : info' = <<answer>> /\ warnings' = warnings
       \/ info' = <<>> /\ warnings' = warnings + 1
    /\ pc' = "select"
    /\ UNCHANGED << inputs, consoleOutput, lintFiles, currentSha, checks, id, report, lintRet, error,
                    lintCalls, engine, distEngine, failed, hostRun >>

\* src/src/main.ts 108-112: the commit query, its failure swallowed
QueryCommit ==
    /\ pc = "query"
    /\ trigger = "push"
    /\ calls' = Append(calls, Call("repos.getCommit", GITHUB_SHA, NoId, "none", NoOutput))
    /\ \/ \E answer \in CommitAnswers : info' = <<answer>> /\ warnings' = warnings
       \/ info' = <<>> /\ warnings' = warnings + 1
    /\ pc' = "select"
    /\ UNCHANGED << inputs, consoleOutput, lintFiles, currentSha, checks, id, report, lintRet, error,
                    lintCalls, engine, distEngine, failed, hostRun >>

\* src/src/main.ts 100-106: no try block surrounds these lines, so the
\* TypeError of a missing commit node leaves run() as a rejected promise
SelectPullRequest ==
    /\ pc = "select"
    /\ trigger = "pr"
    /\ IF info # <<>>
       THEN IF HasCommitNode(info[1])
            THEN /\ currentSha' = PullRequestSha(info[1])
                 /\ lintFiles' = <<SelectPRFiles(info[1].files)>>
                 /\ pc' = "lookup"
            ELSE /\ pc' = "rejected"
                 /\ UNCHANGED << currentSha, lintFiles >>
       ELSE /\ currentSha' = GITHUB_SHA
            /\ pc' = "lookup"
            /\ UNCHANGED lintFiles
    /\ UNCHANGED << inputs, consoleOutput, info, checks, id, report, lintRet, error, calls, lintCalls, engine, distEngine,
                    warnings, failed, hostRun >>

\* src/src/main.ts 113-117
SelectCommit ==
    /\ pc = "select"
    /\ trigger = "push"
    /\ lintFiles' = IF info # <<>> THEN <<SelectCommitFiles(info[1].files)>> ELSE lintFiles
    /\ currentSha' = GITHUB_SHA
    /\ pc' = "lookup"
    /\ UNCHANGED << inputs, consoleOutput, info, checks, id, report, lintRet, error, calls, lintCalls, engine, distEngine,
                    warnings, failed, hostRun >>

\* src/src/main.ts 123: the lookup is attempted only for a configured job-name
LookupWanted(name) == Truthy(name)

\* LookupCheckRun with a throwing lookup skipping the creation
LookupCheckRun_FailureSkipsCreate ==
    /\ pc = "lookup"
    /\ IF LookupWanted(jobName)
       THEN /\ calls' = Append(calls,
                   Call("checks.listForRef", currentSha, NoId, "none", NoOutput))
            /\ \/ \E runs \in CheckRunLists :
                    /\ checks' = <<runs>>
                    /\ id' = ReusedId(runs, jobName)
                    /\ hostRun' = IF ReusedId(runs, jobName) # NoId
                                  THEN "in_progress" ELSE hostRun
                    /\ warnings' = warnings
                    /\ pc' = "create"
               \/ /\ warnings' = warnings + 1
                  /\ pc' = "lint"
                  /\ UNCHANGED << checks, id, hostRun >>
       ELSE pc' = "create" /\ UNCHANGED << calls, checks, id, hostRun, warnings >>
    /\ UNCHANGED << inputs, consoleOutput, info, lintFiles, currentSha, report, lintRet, error, lintCalls, engine, distEngine, failed >>

\* src/src/main.ts 122-135: reuse an in-progress check run named like job-name
LookupCheckRun ==
    /\ pc = "lookup"
    /\ IF LookupWanted(jobName)
       THEN /\ calls' = Append(calls,
                   Call("checks.listForRef", currentSha, NoId, "none", NoOutput))
            /\ \/ \E runs \in CheckRunLists :
                    /\ checks' = <<runs>>
                    /\ id' = ReusedId(runs, jobName)
                    /\ hostRun' = IF ReusedId(runs, jobName) # NoId
                                  THEN "in_progress" ELSE hostRun
                    /\ warnings' = warnings
               \/ /\ warnings' = warnings + 1
                  /\ UNCHANGED << checks, id, hostRun >>
       ELSE UNCHANGED << calls, checks, id, hostRun, warnings >>
    /\ pc' = "create"
    /\ UNCHANGED << inputs, consoleOutput, info, lintFiles, currentSha, report, lintRet, error, lintCalls, engine, distEngine, failed >>

\* src/src/main.ts 136: if (!id)
CreateWanted(held) == held = NoId

\* CreateCheckRun issuing the creation a second time when the first one throws
CreateCheckRun_Retry ==
    /\ pc = "create"
    /\ IF id = NoId
       THEN \/ /\ calls' = Append(calls,
                      Call("checks.create", currentSha, NoId, "none", NoOutput))
               /\ id' = CreatedId
               /\ hostRun' = "in_progress"
               /\ warnings' = warnings
            \/ /\ calls' = calls \o
                      << Call("checks.create", currentSha, NoId, "none", NoOutput),
                         Call("checks.create", currentSha, NoId, "none", NoOutput) >>
               /\ \/ id' = CreatedId /\ hostRun' = "in_progress"
                  \/ UNCHANGED << id, hostRun >>
               /\ warnings' = warnings + 1
       ELSE UNCHANGED << calls, id, hostRun, warnings >>
    /\ pc' = "lint"
    /\ UNCHANGED << inputs, consoleOutput, info, lintFiles, currentSha, checks, report, lintRet,
                    error, lintCalls, engine, distEngine, failed >>

\* src/src/main.ts 136-148: create a check run when none was reused
CreateCheckRun ==
    /\ pc = "create"
    /\ IF CreateWanted(id)
       THEN /\ calls' = Append(calls,
                   Call("checks.create", currentSha, NoId, "none", NoOutput))
            /\ \/ /\ id' = CreatedId
                  /\ hostRun' = "in_progress"
                  /\ warnings' = warnings
               \/ /\ warnings' = warnings + 1
                  /\ UNCHANGED << id, hostRun >>
       ELSE UNCHANGED << calls, id, hostRun, warnings >>
    /\ pc' = "lint"
    /\ UNCHANGED << inputs, consoleOutput, info, lintFiles, currentSha, checks, report, lintRet, error,
                    lintCalls, engine, distEngine, failed >>

\* src/src/main.ts 27-63 and 153: the engine runs on the selected targets and
\* reports results, and lint() returns its verdict for them
LintReturns(results) ==
    /\ engine' = Append(engine, FilesToLint(lintFiles, lintAll, customGlob))
    /\ distEngine' = Append(distEngine, DistFilesToLint(lintFiles, lintAll))
    /\ report' = <<Report(results)>>
    /\ lintRet' = <<LintResult(Report(results))>>
    /\ consoleOutput' = ConsoleOutput(results)
    /\ pc' = "update"
    /\ UNCHANGED error

\* src/src/main.ts 12-27 and 169: the import of the engine fails, or the
\* engine throws on its targets; the exception reaches the catch of run()
LintThrows ==
    \/ \E e \in EngineErrors :
          /\ engine' = Append(engine, FilesToLint(lintFiles, lintAll, customGlob))
          /\ distEngine' = Append(distEngine, DistFilesToLint(lintFiles, lintAll))
          /\ error' = <<e>>
          /\ pc' = "catch"
          /\ UNCHANGED << report, lintRet, consoleOutput >>
    \/ /\ error' = <<ImportError>>
       /\ pc' = "catch"
       /\ UNCHANGED << engine, distEngine, report, lintRet, consoleOutput >>

\* LintCalled entered while the creation of the check run is still pending
LintCalled_BeforeCreate ==
    /\ pc \in { "create", "lint" }
    /\ lintCalls' = lintCalls + 1
    /\ UNCHANGED << inputs, info, lintFiles, currentSha, checks, id, calls,
                    warnings, failed, hostRun >>

\* src/src/main.ts 150-153: run() calls lint() once; nothing else changes
LintCalled ==
    /\ pc = "lint"
    /\ lintCalls' = lintCalls + 1
    /\ UNCHANGED << inputs, info, lintFiles, currentSha, checks, id, calls,
                    warnings, failed, hostRun >>

\* the lint step of run() with the engine reporting one of the sample results
Lint ==
    /\ LintCalled
    /\ \/ \E results \in SampleResults : LintReturns(results)
       \/ LintThrows

\* UpdateWanted without the test of the id
UpdateWanted_Always(held) == TRUE

\* src/src/main.ts 154, 170: if (id)
UpdateWanted(held) == held # NoId

\* UpdateCheckRun issuing the update a second time when the first one throws
UpdateCheckRun_Retry ==
    /\ pc = "update"
    /\ IF UpdateWanted(id)
       THEN \/ /\ calls' = Append(calls,
                      Call("checks.update", "none", id, lintRet[1].conclusion,
                           <<lintRet[1].output>>))
               /\ hostRun' = "completed"
               /\ warnings' = warnings
            \/ /\ calls' = calls \o
                      << Call("checks.update", "none", id, lintRet[1].conclusion,
                              <<lintRet[1].output>>),
                         Call("checks.update", "none", id, lintRet[1].conclusion,
                              <<lintRet[1].output>>) >>
               /\ hostRun' \in { hostRun, "completed" }
               /\ warnings' = warnings + 1
       ELSE UNCHANGED << calls, hostRun, warnings >>
    /\ pc' = "exit"
    /\ UNCHANGED << inputs, consoleOutput, info, lintFiles, currentSha, checks, id, report, lintRet,
                    error, lintCalls, engine, distEngine, failed >>

\* src/src/main.ts 154-166: report the verdict on the check run held
UpdateCheckRun ==
    /\ pc = "update"
    /\ IF UpdateWanted(id)
       THEN /\ calls' = Append(calls,
                   Call("checks.update", "none", id, lintRet[1].conclusion,
                        <<lintRet[1].output>>))
            /\ \/ hostRun' = "completed" /\ warnings' = warnings
               \/ hostRun' = hostRun /\ warnings' = warnings + 1
       ELSE UNCHANGED << calls, hostRun, warnings >>
    /\ pc' = "exit"
    /\ UNCHANGED << inputs, consoleOutput, info, lintFiles, currentSha, checks, id, report, lintRet,
                    error, lintCalls, engine, distEngine, failed >>

\* FailureVerdict failing the process on every verdict
FailureVerdict_Always(conclusion) == TRUE

\* src/src/main.ts 168: if (conclusion === 'failure')
FailureVerdict(conclusion) == conclusion = "failure"

\* src/src/main.ts 167-168: the process fails on a failure verdict
SetExitState ==
    /\ pc = "exit"
    /\ failed' = IF FailureVerdict(lintRet[1].conclusion)
                 THEN Append(failed, lintRet[1].output.summary)
                 ELSE failed
    /\ pc' = "done"
    /\ UNCHANGED << inputs, consoleOutput, info, lintFiles, currentSha, checks, id, report, lintRet,
                    error, calls, lintCalls, engine, distEngine, warnings, hostRun >>

\* CatchUpdateCheckRun without the inner try: a throwing update leaves run()
CatchUpdateCheckRun_Escalate ==
    /\ pc = "catch"
    /\ IF UpdateWanted(id)
       THEN /\ calls' = Append(calls,
                   Call("checks.update", "none", id, "failure", NoOutput))
            /\ \/ hostRun' = "completed" /\ warnings' = warnings /\ pc' = "catchExit"
               \/ hostRun' = hostRun /\ warnings' = warnings /\ pc' = "rejected"
       ELSE pc' = "catchExit" /\ UNCHANGED << calls, hostRun, warnings >>
    /\ UNCHANGED << inputs, consoleOutput, info, lintFiles, currentSha, checks, id, report, lintRet,
                    error, lintCalls, engine, distEngine, failed >>

\* CatchUpdateCheckRun issuing the update once more after it threw
CatchUpdateCheckRun_Retry ==
    /\ pc = "catch"
    /\ IF UpdateWanted(id)
       THEN \/ /\ calls' = Append(calls,
                      Call("checks.update", "none", id, "failure", NoOutput))
               /\ hostRun' = "completed"
               /\ warnings' = warnings
            \/ /\ calls' = calls \o
                      << Call("checks.update", "none", id, "failure", NoOutput),
                         Call("checks.update", "none", id, "failure", NoOutput) >>
               /\ hostRun' = "completed"
               /\ warnings' = warnings + 1
       ELSE UNCHANGED << calls, hostRun, warnings >>
    /\ pc' = "catchExit"
    /\ UNCHANGED << inputs, consoleOutput, info, lintFiles, currentSha, checks, id, report, lintRet,
                    error, lintCalls, engine, distEngine, failed >>

\* src/src/main.ts 170-181: after an exception, mark the check run failed
CatchUpdateCheckRun ==
    /\ pc = "catch"
    /\ IF UpdateWanted(id)
       THEN /\ calls' = Append(calls,
                   Call("checks.update", "none", id, "failure", NoOutput))
            /\ \/ hostRun' = "completed" /\ warnings' = warnings
               \/ hostRun' = hostRun /\ warnings' = warnings + 1
       ELSE UNCHANGED << calls, hostRun, warnings >>
    /\ pc' = "catchExit"
    /\ UNCHANGED << inputs, consoleOutput, info, lintFiles, currentSha, checks, id, report, lintRet,
                    error, lintCalls, engine, distEngine, failed >>

\* src/src/main.ts 182: setFailed(error.message)
CatchSetFailed ==
    /\ pc = "catchExit"
    /\ failed' = Append(failed, error[1])
    /\ pc' = "done"
    /\ UNCHANGED << inputs, consoleOutput, info, lintFiles, currentSha, checks, id, report, lintRet,
                    error, calls, lintCalls, engine, distEngine, warnings, hostRun >>

(* ---------------------- the file selection alone ---------------------- *)
\* run() right after a successful changed-file query, nothing else configured
InitSelect ==
    /\ pc = "select"
    /\ trigger \in { "pr", "push" }
    /\ jobName = <<>>
    /\ lintAll = <<>>
    /\ customGlob = <<>>
    /\ \/ /\ trigger = "pr"
          /\ info \in { <<a>> : a \in SelectPRAnswers }
          /\ calls = <<Call("graphql", "none", NoId, "none", NoOutput)>>
       \/ /\ trigger = "push"
          /\ info \in { <<a>> : a \in SelectCommitAnswers }
          /\ calls = <<Call("repos.getCommit", GITHUB_SHA, NoId, "none", NoOutput)>>
    /\ lintFiles = <<>>
    /\ currentSha = "unset"
    /\ checks = <<>>
    /\ id = NoId
    /\ report = <<>>
    /\ lintRet = <<>>
    /\ error = <<>>
    /\ lintCalls = 0
    /\ engine = <<>>
    /\ warnings = 0
    /\ failed = <<>>
    /\ hostRun = "none"
    /\ consoleOutput = <<>>
    /\ distEngine = <<>>

\* src/src/main.ts 103 applied to its own output: the kept nodes become the
\* answer and are filtered again
ReselectPullRequest ==
    /\ pc = "lookup"
    /\ trigger = "pr"
    /\ info' = <<[info[1] EXCEPT !.files = SelectSeq(info[1].files, KeepPRFile)]>>
    /\ lintFiles' = <<SelectPRFiles(SelectSeq(info[1].files, KeepPRFile))>>
    /\ pc' = "reselected"
    /\ UNCHANGED << inputs, consoleOutput, currentSha, checks, id, report, lintRet, error, calls,
                    lintCalls, engine, distEngine, warnings, failed, hostRun >>

\* src/src/main.ts 115 applied to its own output
ReselectCommit ==
    /\ pc = "lookup"
    /\ trigger = "push"
    /\ info' = <<[info[1] EXCEPT !.files = SelectSeq(info[1].files, KeepCommitFile)]>>
    /\ lintFiles' = <<SelectCommitFiles(SelectSeq(info[1].files, KeepCommitFile))>>
    /\ pc' = "reselected"
    /\ UNCHANGED << inputs, consoleOutput, currentSha, checks, id, report, lintRet, error, calls,
                    lintCalls, engine, distEngine, warnings, failed, hostRun >>

NextSelect ==
    \/ SelectPullRequest
    \/ SelectCommit
    \/ ReselectPullRequest
    \/ ReselectCommit

SpecSelect == InitSelect /\ [][NextSelect]_vars

(* --------------------------- lint() alone ------------------------------ *)
\* run() about to call lint(): a push whose commit query threw, no job-name,
\* a check run created
InitLint ==
    /\ pc = "lint"
    /\ trigger = "push"
    /\ jobName = <<>>
    /\ lintAll \in LintAllInputs
    /\ customGlob = <<>>
    /\ info = <<>>
    /\ lintFiles = <<>>
    /\ currentSha = GITHUB_SHA
    /\ checks = <<>>
    /\ id = CreatedId
    /\ report = <<>>
    /\ lintRet = <<>>
    /\ error = <<>>
    /\ calls = << Call("repos.getCommit", GITHUB_SHA, NoId, "none", NoOutput),
                  Call("checks.create", GITHUB_SHA, NoId, "none", NoOutput) >>
    /\ lintCalls = 0
    /\ engine = <<>>
    /\ warnings = 1
    /\ failed = <<>>
    /\ hostRun = "in_progress"
    /\ consoleOutput = <<>>
    /\ distEngine = <<>>

\* the lint step of run() with the engine reporting any bounded results
LintAny ==
    /\ LintCalled
    /\ \/ \E fs \in ReportedFiles :
            \E ms \in [1..Len(fs) -> MessageLists] : LintReturns(ResultsOf(fs, ms))
       \/ LintThrows

NextLint == LintAny

SpecLint == InitLint /\ [][NextLint]_vars

Next ==
    \/ QueryPullRequest
    \/ QueryCommit
    \/ SelectPullRequest
    \/ SelectCommit
    \/ LookupCheckRun
    \/ CreateCheckRun
    \/ Lint
    \/ UpdateCheckRun
    \/ SetExitState
    \/ CatchUpdateCheckRun
    \/ CatchSetFailed

Spec == Init /\ [][Next]_vars

(* ----------------------------- properties ------------------------------ *)
\* positions in calls of the calls to one remote operation
CallsOf(api) == { i \in 1..Len(calls) : calls[i].api = api }

UpdateCalls == CallsOf("checks.update")

\* C1: checks.update is issued at most once, only for the id held, exactly
\* once by the end of a run that acquired an id and never without an id; the
\* host's check run is completed only by that one call.
C1_UpdateOncePerHeldRun ==
    /\ Cardinality(UpdateCalls) <= 1
    /\ \A i \in UpdateCalls : id # NoId /\ calls[i].check_run_id = id
    /\ (pc = "done" /\ id # NoId) => Cardinality(UpdateCalls) = 1
    /\ hostRun = "completed" => Cardinality(UpdateCalls) = 1

\* C1 witness: an id was acquired, lint() threw and the one update threw too
C1_Witness ==
    /\ pc = "done"
    /\ id # NoId
    /\ error # <<>>
    /\ Cardinality(UpdateCalls) = 1
    /\ hostRun = "in_progress"

\* C2: no exception leaves run(): run() never ends as a rejected promise.
C2_NoUncaughtException == pc # "rejected"

\* checks.create was attempted and threw, and no run had been reused
CreateThrew ==
    /\ pc \notin { "query", "select", "lookup", "create" }
    /\ CallsOf("checks.create") # {}
    /\ id = NoId

\* C3: after a throwing checks.create with nothing reused, a warning is
\* logged, run() goes on, lint() is invoked once (the engine once when lint()
\* returns), no checks.update is ever issued, and once lint() has returned
\* setFailed is called iff the conclusion is 'failure'.
C3_CreateFailureIsNotFatal ==
    CreateThrew =>
        /\ warnings >= 1
        /\ pc # "rejected"
        /\ UpdateCalls = {}
        /\ hostRun # "completed"
        /\ pc = "done" => lintCalls = 1
        /\ (pc = "done" /\ lintRet # <<>>) =>
              /\ Len(engine) = 1
              /\ (failed # <<>>) <=> (lintRet[1].conclusion = "failure")

\* C3 witness: the lookup matched nothing, the creation threw, lint() found errors
C3_Witness ==
    /\ pc = "done"
    /\ CreateThrew
    /\ Truthy(jobName)
    /\ checks # <<>>
    /\ lintRet # <<>>
    /\ lintRet[1].conclusion = "failure"
    /\ failed # <<>>

\* C4: once lint() has returned, setFailed is called exactly when the
\* conclusion is 'failure', once and with the summary, whatever the lookup,
\* creation and update calls did; on 'success' it is never called.
C4_ExitFollowsConclusion ==
    lintRet # <<>> =>
        failed = IF pc = "done" /\ lintRet[1].conclusion = "failure"
                 THEN <<lintRet[1].output.summary>>
                 ELSE <<>>

\* C4 witness: the final update threw, the conclusion is 'success', no setFailed
C4_Witness ==
    /\ pc = "done"
    /\ lintRet # <<>>
    /\ lintRet[1].conclusion = "success"
    /\ id # NoId
    /\ UpdateCalls # {}
    /\ hostRun = "in_progress"
    /\ failed = <<>>

\* C5: after lint() throws, run() stays inside its catch handler: with an id
\* held it issues one checks.update with conclusion 'failure' for that id,
\* and only afterwards, also when that update throws or no id is held, calls
\* setFailed with the exception's message.
C5_LintExceptionReported ==
    error # <<>> =>
        /\ pc \in { "catch", "catchExit", "done" }
        /\ pc = "catch" => UpdateCalls = {}
        /\ pc \in { "catch", "catchExit" } => failed = <<>>
        /\ pc \in { "catchExit", "done" } =>
              /\ Cardinality(UpdateCalls) = IF id # NoId THEN 1 ELSE 0
              /\ \A i \in UpdateCalls :
                    calls[i].check_run_id = id /\ calls[i].conclusion = "failure"
        /\ pc = "done" => failed = <<error[1]>>

\* C5 witness: lint() threw, the run held was marked failed, setFailed followed
C5_Witness ==
    /\ pc = "done"
    /\ error # <<>>
    /\ id # NoId
    /\ hostRun = "completed"
    /\ failed = <<error[1]>>

\* C6: whenever custom-glob is non-empty, the engine's targets are custom-glob
\* split on ',', whatever lint-all and the changed-file list are.
C6_CustomGlobAlwaysUsed ==
    Truthy(customGlob) =>
        \A i \in 1..Len(engine) : engine[i] = Split(customGlob, ",")

\* C7: with custom-glob and lint-all both set, the engine's targets are
\* custom-glob split on ',' and not ['src'], whatever the changed-file list is.
C7_GlobBeatsLintAll ==
    (Truthy(customGlob) /\ Truthy(lintAll)) =>
        /\ \A i \in 1..Len(engine) :
              engine[i] = Split(customGlob, ",") /\ engine[i] # DefaultTarget
        /\ lintRet # <<>> => Len(engine) = 1

\* C7 witness: both inputs set, a non-empty changed-file list resolved, the
\* engine ran on the two glob entries
C7_Witness ==
    /\ Truthy(lintAll)
    /\ customGlob = <<"a", ",", "b">>
    /\ lintFiles # <<>>
    /\ lintFiles[1] # <<>>
    /\ engine = << << <<"a">>, <<"b">> >> >>

\* the changed-file query was issued and threw
QueryThrew == pc # "query" /\ info = <<>>

\* C8: after a throwing changed-file query run() goes on: a warning is
\* logged, the changed-file list stays unresolved, lint() is invoked, and with
\* neither custom-glob nor lint-all set the engine runs on ['src'].
C8_QueryFailureFallsBack ==
    QueryThrew =>
        /\ pc # "rejected"
        /\ warnings >= 1
        /\ lintFiles = <<>>
        /\ pc = "done" => lintCalls = 1
        /\ lintRet # <<>> => Len(engine) = 1
        /\ (~Truthy(customGlob) /\ ~Truthy(lintAll)) =>
              \A i \in 1..Len(engine) : engine[i] = DefaultTarget

\* C8 witness: the pull-request query threw and the engine ran on ['src']
C8_Witness ==
    /\ pc = "done"
    /\ trigger = "pr"
    /\ QueryThrew
    /\ ~Truthy(customGlob)
    /\ ~Truthy(lintAll)
    /\ lintRet # <<>>
    /\ engine = <<DefaultTarget>>

\* the lookup and creation calls, which carry the resolved commit
AnchorCalls == CallsOf("checks.listForRef") \cup CallsOf("checks.create")

\* C9: the ref of the lookup and the head_sha of the creation are the pull
\* request's latest commit oid iff the trigger is a pull request whose query
\* succeeded, and GITHUB_SHA in every other case.
C9_AnchorCommit ==
    \A i \in AnchorCalls :
        /\ calls[i].ref = IF trigger = "pr" /\ info # <<>>
                          THEN info[1].commits[1].commit.oid
                          ELSE GITHUB_SHA
        /\ (calls[i].ref = PrHeadOid) <=> (trigger = "pr" /\ info # <<>>)

\* C9 witness: a pull request whose query succeeded, looked up and created
C9_Witness ==
    /\ trigger = "pr"
    /\ info # <<>>
    /\ CallsOf("checks.listForRef") # {}
    /\ CallsOf("checks.create") # {}
    /\ \A i \in AnchorCalls : calls[i].ref = PrHeadOid

\* positions of the listed check runs named like job-name, case-insensitively
Matches ==
    IF checks = <<>> THEN {}
    ELSE { i \in 1..Len(checks[1]) :
             toLowerCase(checks[1][i].name) = toLowerCase(jobName) }

FirstMatch == checks[1][CHOOSE m \in Matches : \A n \in Matches : m <= n]

\* C10: with a job-name configured and a listed run named like it up to case,
\* that run's id is the one held, no checks.create is issued, and the final
\* checks.update, issued by the end of the run, targets that id.
C10_ReuseByName ==
    (Truthy(jobName) /\ Matches # {}) =>
        /\ id = FirstMatch.id
        /\ CallsOf("checks.create") = {}
        /\ \A i \in UpdateCalls : calls[i].check_run_id = FirstMatch.id
        /\ pc = "done" => UpdateCalls # {}

\* C10 witness: the second listed run matches in another spelling and is updated
C10_Witness ==
    /\ pc = "done"
    /\ jobName = <<"e", "s", "l">>
    /\ checks = << << [id |-> 1, name |-> <<"x">>],
                      [id |-> 2, name |-> <<"E", "S", "L">>] >> >>
    /\ id = 2
    /\ \E i \in UpdateCalls : calls[i].check_run_id = 2

\* the paths of a changed-file list, in its order
PathsOf(files) ==
    [i \in 1..Len(files) |->
        IF trigger = "pr" THEN files[i].path ELSE files[i].filename]

Range(seq) == { seq[i] : i \in 1..Len(seq) }

\* the file selection has run on the answer that info holds
Selected == pc = "lookup" /\ info # <<>> /\ lintFiles # <<>>

\* C11: for a push trigger whose commit query succeeded, no file with status
\* 'removed' or 'unchanged' is in the selected list.
C11_PushSkipsRemovedAndUnchanged ==
    (Selected /\ trigger = "push") =>
        \A i \in 1..Len(info[1].files) :
            info[1].files[i].status \in { "removed", "unchanged" }
                => info[1].files[i].filename \notin Range(lintFiles[1])

\* s ends with suffix
EndsWith(s, suffix) ==
    Len(s) >= Len(suffix) /\ SubSeq(s, Len(s) - Len(suffix) + 1, Len(s)) = suffix

\* C12: for a pull-request trigger whose query succeeded, a changed file is
\* selected iff its extension is .ts, .js, .tsx or .jsx and its path does not
\* end with '.d.ts'.
C12_PRSelectsByExtensionAndSuffix ==
    (Selected /\ trigger = "pr") =>
        \A i \in 1..Len(info[1].files) :
            (info[1].files[i].path \in Range(lintFiles[1]))
                <=> /\ extname(info[1].files[i].path) \in EXTENSIONS
                    /\ ~EndsWith(info[1].files[i].path, <<".", "d", ".", "t", "s">>)

RECURSIVE IsSubsequence(_, _)
\* a is b with some elements left out, the rest in b's order
IsSubsequence(a, b) ==
    IF a = <<>> THEN TRUE
    ELSE IF b = <<>> THEN FALSE
    ELSE IF a[1] = b[1] THEN IsSubsequence(Tail(a), Tail(b))
    ELSE IsSubsequence(a, Tail(b))

\* C13: the selected list is a subsequence of the changed-file list in its
\* order; the filter applied to its own output returns it unchanged (after
\* the second application info holds the first output); and
\* [a.ts, b.d.ts, c.py, d.tsx] gives [a.ts, d.tsx].
C13_FilterKeepsOrderAndIsIdempotent ==
    /\ Selected => IsSubsequence(lintFiles[1], PathsOf(info[1].files))
    /\ pc = "reselected" => lintFiles[1] = PathsOf(info[1].files)
    /\ (Selected /\ trigger = "pr"
          /\ PathsOf(info[1].files) = <<PathATs, PathDecl, PathPy, PathDTsx>>)
       => lintFiles[1] = <<PathATs, PathDTsx>>

\* C13 witness: the example list was filtered, and filtered again
C13_Witness ==
    /\ pc = "reselected"
    /\ trigger = "pr"
    /\ PathsOf(info[1].files) = <<PathATs, PathDTsx>>
    /\ lintFiles = << <<PathATs, PathDTsx>> >>

\* C14: with lint-all set and custom-glob unset the engine runs on ['src'],
\* whether the changed-file list was resolved or not.
C14_LintAllIgnoresChangedFiles ==
    (Truthy(lintAll) /\ ~Truthy(customGlob)) =>
        /\ \A i \in 1..Len(engine) : engine[i] = DefaultTarget
        /\ lintRet # <<>> => Len(engine) = 1

\* C14 witness: a non-empty changed-file list was resolved and the engine ran
\* on ['src'] all the same
C14_Witness ==
    /\ Truthy(lintAll)
    /\ ~Truthy(customGlob)
    /\ lintFiles # <<>>
    /\ lintFiles[1] # <<>>
    /\ lintRet # <<>>
    /\ engine = <<DefaultTarget>>

\* C15: lint() concludes 'failure' iff the engine's errorCount is positive,
\* whatever warningCount is, and its summary is '<errorCount> error(s),
\* <warningCount> warning(s) found'; 0 errors and 2 warnings give success,
\* 3 errors and 1 warning give failure.
C15_VerdictAndSummary ==
    lintRet # <<>> =>
        /\ lintRet[1].conclusion \in { "failure", "success" }
        /\ (lintRet[1].conclusion = "failure") <=> (report[1].errorCount > 0)
        /\ lintRet[1].output.summary =
              ToString(report[1].errorCount) \o " error(s), "
                 \o ToString(report[1].warningCount) \o " warning(s) found"
        /\ (report[1].errorCount = 0 /\ report[1].warningCount = 2) =>
              /\ lintRet[1].conclusion = "success"
              /\ lintRet[1].output.summary = "0 error(s), 2 warning(s) found"
        /\ (report[1].errorCount = 3 /\ report[1].warningCount = 1) =>
              /\ lintRet[1].conclusion = "failure"
              /\ lintRet[1].output.summary = "3 error(s), 1 warning(s) found"

\* C15 witness: warnings alone, and lint() concluded success
C15_Witness ==
    /\ lintRet # <<>>
    /\ report[1].errorCount = 0
    /\ report[1].warningCount = 2
    /\ lintRet[1].conclusion = "success"

RECURSIVE Flat(_)
\* the messages of a results list in the engine's order, each with its file
Flat(results) ==
    IF results = <<>> THEN <<>>
    ELSE [i \in 1..Len(results[1].messages) |->
             [filePath |-> results[1].filePath, msg |-> results[1].messages[i]]]
         \o Flat(Tail(results))

\* message k of the report and annotation k of what lint() returned
Pairs ==
    LET flat == Flat(report[1].results)
        anns == lintRet[1].output.annotations
    IN  { [msg |-> flat[k].msg, filePath |-> flat[k].filePath, ann |-> anns[k]] :
            k \in 1..(IF Len(flat) < Len(anns) THEN Len(flat) ELSE Len(anns)) }

\* C16: the annotation level is 'failure' for severity 2, 'warning' for
\* severity 1 and 'notice' for severity 0 or no severity.
C16_SeverityToLevel ==
    lintRet # <<>> =>
        \A p \in Pairs :
            p.ann.annotation_level =
                IF p.msg.severity = <<2>> THEN "failure"
                ELSE IF p.msg.severity = <<1>> THEN "warning"
                ELSE "notice"

\* C17: an annotation ends where it starts when the message has no endLine or
\* endColumn, and at the given endLine and endColumn otherwise.
C17_SinglePointSpan ==
    lintRet # <<>> =>
        \A p \in Pairs :
            /\ p.ann.start_line = p.msg.line
            /\ p.ann.start_column = p.msg.column
            /\ p.ann.end_line = IF p.msg.endLine = <<>>
                                THEN p.ann.start_line ELSE p.msg.endLine[1]
            /\ p.ann.end_column = IF p.msg.endColumn = <<>>
                                  THEN p.ann.start_column ELSE p.msg.endColumn[1]

\* C17 witness: a message with an endLine and no endColumn was annotated
C17_Witness ==
    /\ lintRet # <<>>
    /\ \E p \in Pairs :
          /\ p.msg = MsgOff
          /\ p.ann.end_line = 8
          /\ p.ann.end_column = p.ann.start_column

\* the path lint() must report for a file of the engine
ExpectedPath(filePath) == IF filePath = AbsA THEN PathATs ELSE PathSrcTsx

\* C18: lint() returns one annotation for each message of the report, in the
\* engine's order, so as many annotations as messages.
C18_OneAnnotationPerMessage ==
    lintRet # <<>> =>
        /\ Len(lintRet[1].output.annotations) = Len(Flat(report[1].results))
        /\ \A p \in Pairs :
              /\ p.ann.path = ExpectedPath(p.filePath)
              /\ p.ann.start_line = p.msg.line
              /\ p.ann.start_column = p.msg.column

\* C18 witness: two files, one with the same message twice, four annotations
C18_Witness ==
    /\ lintRet # <<>>
    /\ report[1].results =
          << [filePath |-> AbsD, messages |-> <<MsgWarn, MsgWarn>>],
             [filePath |-> AbsA, messages |-> <<MsgError, MsgWarn>>] >>
    /\ Len(lintRet[1].output.annotations) = 4

\* C19: no remote call is retried: the changed-file query, the check-run
\* list call, the create call and the update call are each issued at most
\* once, also after one of them has thrown.
C19_NoRetries ==
    /\ Cardinality(CallsOf("graphql") \cup CallsOf("repos.getCommit")) <= 1
    /\ Cardinality(CallsOf("checks.listForRef")) <= 1
    /\ Cardinality(CallsOf("checks.create")) <= 1
    /\ Cardinality(CallsOf("checks.update")) <= 1
    /\ Len(calls) <= 4

\* C19 witness: the query, the lookup and the update threw, each issued once
C19_Witness ==
    /\ pc = "done"
    /\ info = <<>>
    /\ Truthy(jobName)
    /\ checks = <<>>
    /\ id = CreatedId
    /\ hostRun = "in_progress"
    /\ warnings = 3
    /\ Len(calls) = 4

\* C20: no checks.update call carries more annotations than the host's cap.
C20_UpdatesWithinCap ==
    \A i \in UpdateCalls :
        calls[i].output # <<>> =>
            Len(calls[i].output[1].annotations) <= AnnotationCap

\* the step of run() a remote call belongs to: 1 the changed-file query,
\* 2 the check-run lookup, 3 the creation, 4 the update
StepOf(api) ==
    IF api \in { "graphql", "repos.getCommit" } THEN 1
    ELSE IF api = "checks.listForRef" THEN 2
    ELSE IF api = "checks.create" THEN 3
    ELSE 4

\* C21: the steps of run() occur in the order changed-file query, check-run
\* lookup and creation, lint engine, checks.update, setFailed decision: the
\* remote calls are issued in that order with the query first, lint() is
\* invoked only after the lookup and the creation attempts have finished, no
\* checks.update is issued before lint() has returned or thrown, and setFailed
\* is called only after the update attempt.
C21_StepOrder ==
    /\ \A i, j \in 1..Len(calls) : i < j => StepOf(calls[i].api) < StepOf(calls[j].api)
    /\ calls # <<>> => StepOf(calls[1].api) = 1
    /\ lintCalls = 0 => engine = <<>> /\ lintRet = <<>> /\ error = <<>>
    /\ lintCalls > 0 =>
          /\ pc \notin { "query", "select", "lookup", "create", "lint" }
          /\ Truthy(jobName) => CallsOf("checks.listForRef") # {}
          /\ id = NoId => CallsOf("checks.create") # {}
    /\ UpdateCalls # {} => lintCalls = 1 /\ (lintRet # <<>> \/ error # <<>>)
    /\ failed # <<>> =>
          /\ pc = "done"
          /\ id # NoId => UpdateCalls # {}

\* C21 witness: a finished run that went through every step: the query, the
\* lookup, the creation, the engine, the update and setFailed
C21_Witness ==
    /\ pc = "done"
    /\ Len(calls) = 4
    /\ Len(engine) = 1
    /\ lintRet # <<>>
    /\ failed # <<>>

\* run() has passed the creation step
PastCreate == pc \in { "lint", "update", "exit", "done", "catch", "catchExit" }

\* the lookup threw: the list call was issued and gave no answer
LookupThrew == CallsOf("checks.listForRef") # {} /\ checks = <<>>

\* the reuse lookup yielded no id: no job-name configured, the call threw, or
\* no listed run is named like job-name up to case
LookupYieldedNoId == ~Truthy(jobName) \/ LookupThrew \/ Matches = {}

\* C22: checks.create is attempted exactly when the reuse lookup yielded no
\* id (no job-name, no run named like it up to case, or a lookup that threw),
\* never before the lookup step is over; the run it creates is named 'ESLint',
\* anchored to the resolved commit sha and in progress.
C22_CreateWhenNoIdFound ==
    /\ PastCreate => (CallsOf("checks.create") # {} <=> LookupYieldedNoId)
    /\ ~PastCreate => CallsOf("checks.create") = {}
    /\ \A i \in CallsOf("checks.create") :
          /\ calls[i].name = "ESLint"
          /\ calls[i].ref = currentSha
          /\ calls[i].status = "in_progress"
          /\ currentSha = (IF trigger = "pr" /\ info # <<>> THEN PrHeadOid ELSE GITHUB_SHA)

\* C22 witness: with a job-name configured the lookup threw, and the creation
\* was attempted all the same and gave the id held
C22_Witness ==
    /\ PastCreate
    /\ Truthy(jobName)
    /\ LookupThrew
    /\ CallsOf("checks.create") # {}
    /\ id = CreatedId

RECURSIVE GroupedByFile(_)
\* the console text grouped by file: for each reported file that has
\* diagnostics, its path line once, then its diagnostics in reported order
GroupedByFile(results) ==
    IF results = <<>> THEN <<>>
    ELSE (IF results[1].messages = <<>> THEN <<>>
          ELSE << PathLine(ExpectedPath(results[1].filePath)) >>
               \o [i \in 1..Len(results[1].messages) |->
                      DiagnosticLine(results[1].messages[i])])
         \o GroupedByFile(Tail(results))

\* C23: the console text of lint() groups the diagnostics by file: each
\* reported file that has diagnostics contributes one block, its path line
\* once followed by all of its diagnostics in reported order, and the blocks
\* come in the order the files were reported.
C23_OneBlockPerFile ==
    lintRet # <<>> => consoleOutput = GroupedByFile(report[1].results)

\* neither lint-all nor custom-glob is set
NoTargetInput == ~Truthy(lintAll) /\ ~Truthy(customGlob)

\* C24: with neither lint-all nor custom-glob set, a resolved but empty
\* changed-file list is handed to the engine as it is, and the engine gets
\* the default target ['src'] only when the list is unresolved, which is when
\* the changed-file query failed.
C24_EmptyListIsNotDefaulted ==
    (NoTargetInput /\ engine # <<>>) =>
        /\ lintFiles = << <<>> >> => engine[1] = <<>>
        /\ engine[1] = << <<"s", "r", "c">> >> => (lintFiles = <<>> /\ QueryThrew)
        /\ lintFiles = <<>> <=> QueryThrew

\* C24 witness: the query answered, no changed file passed the filter, and
\* the engine ran on the empty list
C24_Witness ==
    /\ NoTargetInput
    /\ info # <<>>
    /\ lintFiles = << <<>> >>
    /\ engine = << <<>> >>
    /\ lintRet # <<>>

\* the one checks.update call threw: it logged a warning beyond those of the
\* query and the lookup (a throwing creation leaves no id to update)
UpdateThrew ==
    /\ UpdateCalls # {}
    /\ warnings = (IF QueryThrew THEN 1 ELSE 0) + (IF LookupThrew THEN 1 ELSE 0) + 1

\* C25: the check run created or reused by this invocation is completed on
\* the host iff the single checks.update call succeeds; when that call throws,
\* on the success path or on the lint-exception path, nothing further is
\* attempted and run() ends with the run still in progress.
C25_CompletedIffUpdateSucceeds ==
    /\ hostRun = "completed" <=> (UpdateCalls # {} /\ ~UpdateThrew)
    /\ UpdateThrew => (hostRun = "in_progress" /\ Cardinality(UpdateCalls) = 1)
    /\ (id # NoId /\ UpdateCalls = {}) => hostRun = "in_progress"
    /\ (pc = "done" /\ id # NoId) =>
          /\ Cardinality(UpdateCalls) = 1
          /\ hostRun = (IF UpdateThrew THEN "in_progress" ELSE "completed")

\* C25 witness: lint() returned, the update of the created run threw, and
\* run() ended with the run in progress
C25_Witness ==
    /\ pc = "done"
    /\ id = CreatedId
    /\ lintRet # <<>>
    /\ UpdateThrew
    /\ hostRun = "in_progress"

\* C26: the built artifact src/dist/main.js hands the engine the same target
\* list as src/src/main.ts, for every resolved or unresolved changed-file
\* list and every setting of lint-all and custom-glob.
C26_DistSelectsSameTargets == distEngine = engine

=============================================================================
